---- MODULE Spec2Model ----
(***************************************************************************)
(* pipcook: the costa PluginRunnable (packages/costa/src/runnable.ts) and  *)
(* the daemon's tracer service (Tracer, LogPassthrough, TraceManager).     *)
(*                                                                         *)
(* Five specifications share this module:                                  *)
(*   SpecL  one LogPassthrough fed with chunks of bytes and then ended;    *)
(*   SpecR  one PluginRunnable driven by concurrent callers, with its      *)
(*          child process and the ipc channel to it;                       *)
(*   SpecT  one Tracer with its two LogPassthrough streams, listeners,     *)
(*          waiters and destroy calls (SpecTFair adds the event loop's     *)
(*          fairness);                                                     *)
(*   SpecD  one Tracer without files: listeners, dispatch, destroy calls   *)
(*          and the resumption of their callers;                           *)
(*   SpecM  the TraceManager and the Tracer created through it.            *)
(***************************************************************************)
EXTENDS Integers, Sequences, FiniteSets, TLC

VARIABLES
  lp,            \* SpecL: the LogPassthrough under test
  state,         \* PluginRunnable.state
  child,         \* PluginRunnable.handle and the process behind it
  canceled,      \* PluginRunnable.canceled
  sigkill,       \* whether handle.kill('SIGKILL') has been called
  pc,            \* per caller: the await its call is suspended at
  ret,           \* how the call that completed last completed (history)
  acks,          \* positive handshake acknowledgements received (history)
  logs,          \* Tracer.stdout / Tracer.stderr
  rbuf,          \* per stream: lines pushed while nobody listened
  nListen,       \* number of Tracer.listen calls so far
  got,           \* per listener: the events its callback received
  closeSeen,     \* per listener: the streams whose 'close' it has seen
  waiterForEnd,  \* Tracer.waiterForEnd: 0 = undefined, k = set by listen k
  waitTargets,   \* the values Tracer.wait() calls have returned
  destroys,      \* the Tracer.destroy calls made so far
  fileWaiters,   \* per stream: destroy calls waiting for fileStream 'close'
  nWrites,       \* write calls made so far on the Tracer's streams
  req,           \* the channel request a start call issued last (history)
  dispatched,    \* the Tracer.dispatch calls made so far (history)
  returned,      \* per destroy call: what its caller found when it resumed
  tracerMap,     \* TraceManager.tracerMap: the ids registered
  created,       \* TraceManager.create has been called
  mret           \* the TraceManager call that completed last (history)

varsL == <<lp>>
varsR == <<state, child, canceled, sigkill, pc, ret, acks, req>>
varsT == <<logs, rbuf, nListen, got, closeSeen, waiterForEnd, waitTargets,
           destroys, fileWaiters, nWrites>>
varsD == <<dispatched, returned>>
varsM == <<tracerMap, created, mret>>
vars == <<varsL, varsR, varsT, varsD, varsM>>

(***************************************************************************)
(* Bounds.                                                                 *)
(***************************************************************************)
\* SpecL: bytes written to the stream in total.
MaxBytes == 5
\* SpecR: concurrent callers of the Runnable.
NumCallers == 3
\* SpecT: listen calls, write calls, destroy calls.
MaxListen == 2
MaxWrites == 1
MaxDestroy == 2
\* SpecD: dispatch calls.
MaxDispatch == 2

(***************************************************************************)
(* Bytes and characters.  A chunk is a sequence of bytes.  "a" is an ASCII *)
(* letter, Lead and Trail are the two bytes of one two-byte UTF-8          *)
(* character (decoded: Wide); Repl is U+FFFD, what the decoder gives for   *)
(* bytes that are no character.                                            *)
(***************************************************************************)
LF == "\n"
CR == "\r"
Lead == "H"
Trail == "T"
Wide == "E"
Repl == "?"
Bytes == {"a", LF, CR, Lead, Trail}

RECURSIVE SeqsUpTo(_, _)
SeqsUpTo(S, n) ==
  IF n = 0 THEN {<<>>}
  ELSE LET shorter == SeqsUpTo(S, n - 1)
       IN  shorter \cup {Append(s, b) : s \in {t \in shorter : Len(t) = n - 1}, b \in S}

Front(s) == SubSeq(s, 1, Len(s) - 1)
Last(s) == s[Len(s)]

(***************************************************************************)
(* StringDecoder('utf8'): write(buf) returns the characters that are       *)
(* complete and keeps an incomplete trailing sequence; end() returns what  *)
(* the kept bytes decode to.                                               *)
(***************************************************************************)
RECURSIVE DecoderWrite(_, _, _)
DecoderWrite(pend, bytes, acc) ==
  IF bytes = <<>> THEN [text |-> acc, pend |-> pend]
  ELSE LET b == Head(bytes) IN
       IF pend = <<>>
       THEN IF b = Lead THEN DecoderWrite(<<Lead>>, Tail(bytes), acc)
            ELSE IF b = Trail THEN DecoderWrite(<<>>, Tail(bytes), Append(acc, Repl))
            ELSE DecoderWrite(<<>>, Tail(bytes), Append(acc, b))
       ELSE IF b = Trail THEN DecoderWrite(<<>>, Tail(bytes), Append(acc, Wide))
            ELSE DecoderWrite(<<>>, bytes, Append(acc, Repl))

DecoderEnd(pend) == IF pend = <<>> THEN <<>> ELSE <<Repl>>

(***************************************************************************)
(* String.prototype.split(/\n|\r/): the segments between terminators, in   *)
(* order; always at least one segment.                                     *)
(***************************************************************************)
RECURSIVE SplitAcc(_, _, _)
SplitAcc(text, cur, acc) ==
  IF text = <<>> THEN Append(acc, cur)
  ELSE IF Head(text) \in {LF, CR}
       THEN SplitAcc(Tail(text), <<>>, Append(acc, cur))
       ELSE SplitAcc(Tail(text), Append(cur, Head(text)), acc)

SplitLines(text) == SplitAcc(text, <<>>, <<>>)

(***************************************************************************)
(* LogPassthrough.  last/lastSet: the field `last` (lastSet = FALSE while  *)
(* it is undefined); dec: the decoder's kept bytes; out: the lines given   *)
(* to this.push, in order; ended/destroyed/closed: end() was called,       *)
(* destroy() was called, 'close' was emitted; errPending: destroy(err) was *)
(* called with an error that is still to be emitted; file: the fileStream  *)
(* ("none" when no filename was given), fdata: what was written to it.     *)
(* History fields: wrote (the bytes accepted by write), firstCut (the      *)
(* length of the first accepted chunk, -1 before it), flushed (_flush has  *)
(* run).                                                                   *)
(***************************************************************************)
NewLogPassthrough(hasFile) ==
  [last |-> <<>>, lastSet |-> FALSE, dec |-> <<>>, out |-> <<>>,
   ended |-> FALSE, destroyed |-> FALSE, closed |-> FALSE, errPending |-> FALSE,
   file |-> IF hasFile THEN "open" ELSE "none", fdata |-> <<>>,
   wrote |-> <<>>, firstCut |-> -1, flushed |-> FALSE]

\* A _transform that forgets the carried fragment.
TransformNoCarry(l, chunk) ==
  LET d == DecoderWrite(l.dec, chunk, <<>>)
      list == SplitLines(d.text)
  IN  [l EXCEPT !.lastSet = TRUE,
                !.last = Last(list),
                !.dec = d.pend,
                !.out = @ \o Front(list)]

\* _transform(chunk), lines 163-174
Transform(l, chunk) ==
  LET d == DecoderWrite(l.dec, chunk, <<>>)
      list == SplitLines((IF l.lastSet THEN l.last ELSE <<>>) \o d.text)
  IN  [l EXCEPT !.lastSet = TRUE,
                !.last = Last(list),
                !.dec = d.pend,
                !.out = @ \o Front(list)]

\* A _flush that does not push the fragment.
FlushNoPush(l) ==
  LET e == DecoderEnd(l.dec)
      fin == IF l.lastSet /\ l.last # <<>> THEN l.last \o e ELSE e
  IN  [l EXCEPT !.lastSet = TRUE,
                !.last = fin,
                !.dec = <<>>,
                !.flushed = TRUE]

\* _flush(), lines 176-182
Flush(l) ==
  LET e == DecoderEnd(l.dec)
      fin == IF l.lastSet /\ l.last # <<>> THEN l.last \o e ELSE e
  IN  [l EXCEPT !.lastSet = TRUE,
                !.last = fin,
                !.dec = <<>>,
                !.out = IF fin # <<>> THEN Append(@, fin) ELSE @,
                !.flushed = TRUE]

\* write(chunk): tee to the file while it is writable, then Transform.write,
\* which hands the chunk to _transform unless the stream has been ended.
LogWrite(l, chunk) ==
  LET teed == IF l.file = "open" THEN [l EXCEPT !.fdata = @ \o chunk] ELSE l
  IN  IF teed.ended \/ teed.destroyed
      THEN teed
      ELSE [Transform(teed, chunk) EXCEPT !.wrote = @ \o chunk,
                                          !.firstCut = IF @ = -1 THEN Len(chunk) ELSE @]

\* this.end() in finish(): the first call runs _flush; later calls do nothing.
LogEnd(l) ==
  IF l.ended \/ l.destroyed THEN l ELSE Flush([l EXCEPT !.ended = TRUE])

(***************************************************************************)
(* SpecL: chunks of bytes are written to one LogPassthrough, then it is    *)
(* ended.                                                                  *)
(***************************************************************************)
InitL == lp = NewLogPassthrough(FALSE)

LWrite(chunk) ==
  /\ ~lp.ended
  /\ Len(lp.wrote) + Len(chunk) <= MaxBytes
  /\ lp' = LogWrite(lp, chunk)

LEnd ==
  /\ ~lp.ended
  /\ lp' = LogEnd(lp)

(***************************************************************************)
(* The PluginRunnable.  Callers invoke bootstrap, valueOf, start and       *)
(* destroy; a call runs to its first await in one step and is resumed by   *)
(* the step that settles the awaited promise.  pc[p] names the await:      *)
(*   "boot_dirs"   bootstrap, line 103 (ensureDir)                         *)
(*   "boot_hs"     bootstrap, line 116 (ipcProxy.handshake)                *)
(*   "value"       valueOf,   line 127 (ipcProxy.valueOf)                  *)
(*   "start_dirs"  start,     lines 143-152 (ensureDir, ensureSymlink)     *)
(*   "start_load"  start,     line 156 (ipcProxy.load)                     *)
(*   "start_start" start,     line 159 (ipcProxy.start)                    *)
(*   "destroy"     destroy,   line 175 (ipcProxy.destroy)                  *)
(* child is "none" while handle is null, "alive" while the forked process  *)
(* is connected and "exited" afterwards.  The channel (ipc-proxy) is       *)
(* opaque: every call on it settles by resolving or by rejecting (a        *)
(* worker-reported error or the call's timeout), whatever the child does.  *)
(***************************************************************************)
Callers == 1 .. NumCallers

\* What the channel's calls can settle to.  handshake(id): true ("ack"), a
\* falsy value ("nack") or a rejection ("reject": no acknowledgement within
\* the timeout).  load, start, valueOf, destroy: resolved (TRUE) or rejected
\* (FALSE: a worker-reported error or the timeout).
HandshakeReplies == {"ack", "nack", "reject"}
ChannelOutcomes == BOOLEAN
\* ensureDir / ensureSymlink: done (TRUE) or rejected (FALSE).
FsOutcomes == BOOLEAN

States == {"init", "idle", "busy", "error"}

NoRet == [who |-> 0, op |-> "none", out |-> "none", why |-> "none",
          pre |-> "init", st |-> "init", alive |-> FALSE, killed |-> FALSE]

\* History: call `op` of caller `who` completed by returning (out = "returned")
\* or throwing (out = "threw"); pre and st are the Runnable's state before and
\* after the completing step, alive and killed describe the child then.
Completed(who, op, out, why, pre, st, ch, sk) ==
  [who |-> who, op |-> op, out |-> out, why |-> why, pre |-> pre, st |-> st,
   alive |-> (ch = "alive"), killed |-> sk]

\* History: the start call entered last, caller `who`'s, issued channel
\* request `op` (none yet at its entry, line 137) when the await `after` had
\* resolved ("dirs": the fs calls of lines 143-152, "load": ipcProxy.load),
\* the Runnable's state being st.
NoReq == [who |-> 0, op |-> "none", after |-> "none", st |-> "init"]

Issued(who, op, after, st) == [who |-> who, op |-> op, after |-> after, st |-> st]

InitR ==
  /\ req = NoReq
  /\ state = "init"
  /\ child = "none"
  /\ canceled = FALSE
  /\ sigkill = FALSE
  /\ pc = [p \in Callers |-> "ready"]
  /\ ret = NoRet
  /\ acks = 0

Finish(p, op, out, why) ==
  /\ pc' = [pc EXCEPT ![p] = "ready"]
  /\ ret' = Completed(p, op, out, why, state, state', child', sigkill')

\* bootstrap(arg), lines 96-103.  The Runnable's creator calls it once, on a
\* Runnable that has no child yet.
BootstrapCall(p) ==
  /\ pc[p] = "ready"
  /\ child = "none"
  /\ \A q \in Callers : pc[q] \notin {"boot_dirs", "boot_hs"}
  /\ pc' = [pc EXCEPT ![p] = "boot_dirs"]
  /\ UNCHANGED <<state, child, canceled, sigkill, ret, acks, req>>

\* lines 103-116: the directories exist (or ensureDir rejects); fork, pipe the
\* logs, set up the channel and send the handshake.
BootstrapFork(p, ok) ==
  /\ pc[p] = "boot_dirs"
  /\ UNCHANGED <<acks, req>>
  /\ IF ok
     THEN /\ child' = "alive"
          /\ pc' = [pc EXCEPT ![p] = "boot_hs"]
          /\ UNCHANGED <<state, canceled, sigkill, ret>>
     ELSE /\ UNCHANGED <<state, child, canceled, sigkill>>
          /\ Finish(p, "bootstrap", "threw", "dirs")

\* A bootstrap that does not check the handshake's reply.
BootstrapHandshakeUnchecked(p, reply) ==
  /\ pc[p] = "boot_hs"
  /\ UNCHANGED <<child, canceled, sigkill, req>>
  /\ acks' = IF reply = "ack" THEN acks + 1 ELSE acks
  /\ IF reply \in {"ack", "nack"}
     THEN /\ state' = "idle"
          /\ Finish(p, "bootstrap", "returned", reply)
     ELSE /\ state' = state
          /\ Finish(p, "bootstrap", "threw", reply)

\* lines 116-121: the handshake settles: "ack" (true), "nack" (a falsy reply)
\* or "reject" (the call fails, e.g. by its timeout).
BootstrapHandshake(p, reply) ==
  /\ pc[p] = "boot_hs"
  /\ UNCHANGED <<child, canceled, sigkill, req>>
  /\ acks' = IF reply = "ack" THEN acks + 1 ELSE acks
  /\ IF reply = "ack"
     THEN /\ state' = "idle"
          /\ Finish(p, "bootstrap", "returned", "ack")
     ELSE /\ state' = state
          /\ Finish(p, "bootstrap", "threw", reply)

\* valueOf(resp), lines 126-128.
ValueOfCall(p) ==
  /\ pc[p] = "ready"
  /\ UNCHANGED <<state, child, canceled, sigkill, acks, req>>
  /\ IF child = "none"
     THEN Finish(p, "valueOf", "threw", "nochannel")
     ELSE /\ pc' = [pc EXCEPT ![p] = "value"]
          /\ ret' = ret

ValueOfReply(p, ok) ==
  /\ pc[p] = "value"
  /\ UNCHANGED <<state, child, canceled, sigkill, acks, req>>
  /\ Finish(p, "valueOf", IF ok THEN "returned" ELSE "threw", "channel")

\* A start that does not look at the state.
StartCallUnguarded(p) ==
  /\ pc[p] = "ready"
  /\ UNCHANGED <<child, canceled, sigkill, acks>>
  /\ req' = Issued(p, "none", "entry", "busy")
  /\ state' = "busy"
  /\ pc' = [pc EXCEPT ![p] = "start_dirs"]
  /\ ret' = ret

\* start(pkg, ...args), lines 133-143.
StartCall(p) ==
  /\ pc[p] = "ready"
  /\ UNCHANGED <<child, canceled, sigkill, acks>>
  /\ IF state # "idle"
     THEN /\ state' = state
          /\ req' = req
          /\ Finish(p, "start", "threw", "notidle")
     ELSE /\ state' = "busy"
          /\ req' = Issued(p, "none", "entry", "busy")
          /\ pc' = [pc EXCEPT ![p] = "start_dirs"]
          /\ ret' = ret

\* lines 143-156: the component directories and the symlink are made (or one
\* of the fs calls rejects), then load is sent.
StartPrepare(p, ok) ==
  /\ pc[p] = "start_dirs"
  /\ UNCHANGED <<state, child, canceled, sigkill, acks>>
  /\ IF ok
     THEN /\ pc' = [pc EXCEPT ![p] = "start_load"]
          /\ req' = Issued(p, "load", "dirs", state)
          /\ ret' = ret
     ELSE /\ req' = req
          /\ Finish(p, "start", "threw", "dirs")

\* A start that sends the channel's start whatever load settled to.
StartLoadUnchecked(p, ok) ==
  /\ pc[p] = "start_load"
  /\ UNCHANGED <<state, child, canceled, sigkill, acks>>
  /\ pc' = [pc EXCEPT ![p] = "start_start"]
  /\ req' = Issued(p, "start", IF ok THEN "load" ELSE "load_failed", state)
  /\ ret' = ret

\* lines 156-159: load settles; on success start is sent.
StartLoad(p, ok) ==
  /\ pc[p] = "start_load"
  /\ UNCHANGED <<state, child, canceled, sigkill, acks>>
  /\ IF ok
     THEN /\ pc' = [pc EXCEPT ![p] = "start_start"]
          /\ req' = Issued(p, "start", "load", state)
          /\ ret' = ret
     ELSE /\ req' = req
          /\ Finish(p, "start", "threw", "load")

\* lines 159-163: start settles.
StartResult(p, ok) ==
  /\ pc[p] = "start_start"
  /\ UNCHANGED <<child, canceled, sigkill, acks, req>>
  /\ IF ok
     THEN /\ state' = "idle"
          /\ Finish(p, "start", "returned", "result")
     ELSE /\ state' = state
          /\ Finish(p, "start", "threw", "start")

\* destroy(), lines 168-175.
DestroyCall(p) ==
  /\ pc[p] = "ready"
  /\ UNCHANGED <<state, child, sigkill, acks, req>>
  /\ IF child = "none"
     THEN /\ canceled' = canceled
          /\ Finish(p, "destroy", "threw", "nohandle")
     ELSE IF child # "alive"
     THEN /\ canceled' = canceled
          /\ Finish(p, "destroy", "returned", "notconnected")
     ELSE /\ canceled' = TRUE
          /\ pc' = [pc EXCEPT ![p] = "destroy"]
          /\ ret' = ret

\* A destroy that marks the error but leaves the child alone.
DestroyReplyNoKill(p, ok) ==
  /\ pc[p] = "destroy"
  /\ UNCHANGED <<canceled, acks, req>>
  /\ IF ok
     THEN /\ state' = state
          /\ sigkill' = sigkill
          /\ child' = "exited"
          /\ Finish(p, "destroy", "returned", "acked")
     ELSE /\ state' = "error"
          /\ sigkill' = sigkill
          /\ child' = child
          /\ Finish(p, "destroy", "returned", "failed")

\* A destroy that gives up when the channel call fails.
DestroyReplyGivesUp(p, ok) ==
  /\ pc[p] = "destroy"
  /\ UNCHANGED <<canceled, acks, req>>
  /\ state' = state
  /\ sigkill' = sigkill
  /\ child' = IF ok THEN "exited" ELSE child
  /\ Finish(p, "destroy", "returned", IF ok THEN "acked" ELSE "failed")

\* lines 175-180: the channel's destroy settles: acknowledged (the child has
\* exited by itself) or failed (timeout), and then the child is killed.
DestroyReply(p, ok) ==
  /\ pc[p] = "destroy"
  /\ UNCHANGED <<canceled, acks, req>>
  /\ IF ok
     THEN /\ state' = state
          /\ sigkill' = sigkill
          /\ child' = "exited"
          /\ Finish(p, "destroy", "returned", "acked")
     ELSE /\ state' = "error"
          /\ sigkill' = TRUE
          /\ child' = "exited"
          /\ Finish(p, "destroy", "returned", "failed")

\* The child process ends by itself (the plugin crashes or calls exit).
ChildExit ==
  /\ child = "alive"
  /\ child' = "exited"
  /\ UNCHANGED <<state, canceled, sigkill, pc, ret, acks, req>>

NextR ==
  \/ \E p \in Callers : BootstrapCall(p) /\ UNCHANGED <<varsL, varsT, varsD, varsM>>
  \/ \E p \in Callers, ok \in FsOutcomes :
       BootstrapFork(p, ok) /\ UNCHANGED <<varsL, varsT, varsD, varsM>>
  \/ \E p \in Callers, reply \in HandshakeReplies :
       BootstrapHandshake(p, reply) /\ UNCHANGED <<varsL, varsT, varsD, varsM>>
  \/ \E p \in Callers : ValueOfCall(p) /\ UNCHANGED <<varsL, varsT, varsD, varsM>>
  \/ \E p \in Callers, ok \in ChannelOutcomes :
       ValueOfReply(p, ok) /\ UNCHANGED <<varsL, varsT, varsD, varsM>>
  \/ \E p \in Callers : StartCall(p) /\ UNCHANGED <<varsL, varsT, varsD, varsM>>
  \/ \E p \in Callers, ok \in FsOutcomes :
       StartPrepare(p, ok) /\ UNCHANGED <<varsL, varsT, varsD, varsM>>
  \/ \E p \in Callers, ok \in ChannelOutcomes :
       StartLoad(p, ok) /\ UNCHANGED <<varsL, varsT, varsD, varsM>>
  \/ \E p \in Callers, ok \in ChannelOutcomes :
       StartResult(p, ok) /\ UNCHANGED <<varsL, varsT, varsD, varsM>>
  \/ \E p \in Callers : DestroyCall(p) /\ UNCHANGED <<varsL, varsT, varsD, varsM>>
  \/ \E p \in Callers, ok \in ChannelOutcomes :
       DestroyReply(p, ok) /\ UNCHANGED <<varsL, varsT, varsD, varsM>>
  \/ ChildExit /\ UNCHANGED <<varsL, varsT, varsD, varsM>>

(***************************************************************************)
(* The Tracer: two LogPassthrough streams, the listeners registered by     *)
(* listen(), the promise listen() stores in waiterForEnd, and the destroy  *)
(* calls.  A stream hands each pushed line to the 'data' listeners at the  *)
(* push; lines pushed while there is no listener wait in the stream's      *)
(* readable buffer (rbuf) for the first one.  A destroyed stream emits     *)
(* 'error' (when destroy was given one) and 'close' in a later tick.       *)
(***************************************************************************)
Streams == {"stdout", "stderr"}
Listeners == 1 .. MaxListen

\* pipeLog('info', this.stdout); pipeLog('warn', this.stderr)
Level(s) == IF s = "stdout" THEN "info" ELSE "warn"

\* new LogEvent(level, data)
LogEvent(level, data) == [type |-> "log", level |-> level, data |-> data]

ErrMessage == <<"err.message">>
WriteAfterEnd == <<"write after end">>

\* The chunks the producers write: a fragment, and a line with a fragment.
Chunks == {<<"a">>, <<"a", LF, "a">>}

LineEvents(s, lines) == [i \in 1 .. Len(lines) |-> LogEvent(Level(s), lines[i])]

\* The lines a step pushed: out grows at its end only.
Pushed(old, new) == SubSeq(new.out, Len(old.out) + 1, Len(new.out))

\* An emitter calls every listener registered so far, in order.
Deliver(g, n, events) == [k \in Listeners |-> IF k <= n THEN g[k] \o events ELSE g[k]]

\* new Tracer(opts): each stream with or without a file, as `files` allows.
InitT(files) ==
  /\ logs \in [Streams -> {NewLogPassthrough(f) : f \in files}]
  /\ rbuf = [s \in Streams |-> <<>>]
  /\ nListen = 0
  /\ got = [k \in Listeners |-> <<>>]
  /\ closeSeen = [k \in Listeners |-> {}]
  /\ waiterForEnd = 0
  /\ waitTargets = {}
  /\ destroys = <<>>
  /\ fileWaiters = [s \in Streams |-> {}]
  /\ nWrites = 0

\* A producer writes a chunk to a log sink (getLogger().stdout.write(chunk)).
\* A write after end() is refused by the stream with an 'error' event.
TWrite(s, chunk) ==
  /\ nWrites < MaxWrites
  /\ nWrites' = nWrites + 1
  /\ LET new == LogWrite(logs[s], chunk)
         lines == Pushed(logs[s], new)
     IN  /\ logs' = [logs EXCEPT ![s] = new]
         /\ IF logs[s].ended
            THEN /\ got' = Deliver(got, nListen, <<LogEvent("error", WriteAfterEnd)>>)
                 /\ rbuf' = rbuf
            ELSE IF nListen > 0
            THEN /\ got' = Deliver(got, nListen, LineEvents(s, lines))
                 /\ rbuf' = rbuf
            ELSE /\ got' = got
                 /\ rbuf' = [rbuf EXCEPT ![s] = @ \o lines]
  /\ UNCHANGED <<nListen, closeSeen, waiterForEnd, waitTargets, destroys, fileWaiters>>

\* listen(cb), lines 91-113.  The first 'data' listener starts the flow of a
\* stream that is not destroyed: it receives the buffered lines.
Buffered(s) == IF logs[s].destroyed THEN <<>> ELSE LineEvents(s, rbuf[s])

TListen ==
  /\ nListen < MaxListen
  /\ nListen' = nListen + 1
  /\ got' = [got EXCEPT ![nListen + 1] = Buffered("stdout") \o Buffered("stderr")]
  /\ rbuf' = [s \in Streams |-> <<>>]
  /\ waiterForEnd' = nListen + 1
  /\ UNCHANGED <<logs, closeSeen, waitTargets, destroys, fileWaiters, nWrites>>

\* wait(), lines 126-128: returns waiterForEnd as it is now.
TWait ==
  /\ waitTargets' = waitTargets \cup {waiterForEnd}
  /\ UNCHANGED <<logs, rbuf, nListen, got, closeSeen, waiterForEnd, destroys,
                 fileWaiters, nWrites>>

\* A destoryAndResolve that gives up on an error nobody listens for.
DestroyAndResolveGivesUp(l, err, listeners) ==
  IF l.destroyed \/ (err /\ listeners = 0) THEN l
  ELSE [l EXCEPT !.destroyed = TRUE,
                 !.errPending = err /\ listeners > 0]

\* destoryAndResolve, lines 216-227, on stream l with finish's argument err.
DestroyAndResolve(l, err, listeners) ==
  IF l.destroyed THEN l
  ELSE [l EXCEPT !.destroyed = TRUE,
                 !.errPending = err /\ listeners > 0]

\* A finish that does not wait for the fileStream's 'close'.
LogFinishNoWait(l, err, listeners) ==
  LET ended == LogEnd(l)
  IN  [log |-> DestroyAndResolve(
                 [ended EXCEPT !.file = IF @ = "open" THEN "ending" ELSE @],
                 err, listeners),
       resolved |-> TRUE]

\* finish(err), lines 213-238: end the stream; with a fileStream, wait for its
\* 'close' and end it; without one, destroy and resolve at once.
LogFinish(l, err, listeners) ==
  LET ended == LogEnd(l)
  IN  IF ended.file # "none"
      THEN [log |-> [ended EXCEPT !.file = IF @ = "open" THEN "ending" ELSE @],
            resolved |-> FALSE]
      ELSE [log |-> DestroyAndResolve(ended, err, listeners), resolved |-> TRUE]

\* destroy(err), lines 134-140: stderr.finish(err), then stdout.finish().
TDestroy(err) ==
  /\ Len(destroys) < MaxDestroy
  /\ LET d == Len(destroys) + 1
         fe == LogFinish(logs["stderr"], err, nListen)
         fo == LogFinish(logs["stdout"], FALSE, nListen)
         events == LineEvents("stderr", Pushed(logs["stderr"], fe.log))
                     \o LineEvents("stdout", Pushed(logs["stdout"], fo.log))
     IN  /\ logs' = [logs EXCEPT !["stderr"] = fe.log, !["stdout"] = fo.log]
         /\ destroys' = Append(destroys,
              [err |-> err, listeners |-> nListen,
               done |-> {s \in Streams : IF s = "stderr" THEN fe.resolved ELSE fo.resolved}])
         /\ fileWaiters' = [s \in Streams |->
              IF logs[s].file # "none" THEN fileWaiters[s] \cup {d} ELSE fileWaiters[s]]
         /\ IF nListen > 0
            THEN /\ got' = Deliver(got, nListen, events)
                 /\ rbuf' = rbuf
            ELSE /\ got' = got
                 /\ rbuf' = [s \in Streams |->
                      rbuf[s] \o Pushed(logs[s], IF s = "stderr" THEN fe.log ELSE fo.log)]
  /\ UNCHANGED <<nListen, closeSeen, waiterForEnd, waitTargets, nWrites>>

Min(S) == CHOOSE x \in S : \A y \in S : x <= y

\* The fileStream of stream s emits 'close' (lines 229-232): every finish
\* waiting for it closes the file, destroys the stream and resolves.
TFileClose(s) ==
  /\ logs[s].file = "ending"
  /\ LET first == IF fileWaiters[s] = {} THEN FALSE
                  ELSE s = "stderr" /\ destroys[Min(fileWaiters[s])].err
         closedFile == [logs[s] EXCEPT !.file = "closed"]
     IN  logs' = [logs EXCEPT ![s] =
                    IF fileWaiters[s] = {} THEN closedFile
                    ELSE DestroyAndResolve(closedFile, first, nListen)]
  /\ destroys' = [d \in DOMAIN destroys |->
                    IF d \in fileWaiters[s]
                    THEN [destroys[d] EXCEPT !.done = @ \cup {s}]
                    ELSE destroys[d]]
  /\ fileWaiters' = [fileWaiters EXCEPT ![s] = {}]
  /\ UNCHANGED <<rbuf, nListen, got, closeSeen, waiterForEnd, waitTargets, nWrites>>

\* The tick after destroy(): the stream emits 'error' if it was destroyed
\* with one, then 'close'.
TEmitClose(s) ==
  /\ logs[s].destroyed
  /\ ~logs[s].closed
  /\ logs' = [logs EXCEPT ![s] = [@ EXCEPT !.closed = TRUE, !.errPending = FALSE]]
  /\ got' = IF logs[s].errPending
            THEN Deliver(got, nListen, <<LogEvent("error", ErrMessage)>>)
            ELSE got
  /\ closeSeen' = [k \in Listeners |->
                     IF k <= nListen THEN closeSeen[k] \cup {s} ELSE closeSeen[k]]
  /\ UNCHANGED <<rbuf, nListen, waiterForEnd, waitTargets, destroys, fileWaiters, nWrites>>

(***************************************************************************)
(* dispatch, and the caller of destroy.  The promise destroy() returns is  *)
(* settled by finish's resolve(); the caller's continuation runs as a      *)
(* promise job, the stream's 'error' and 'close' are emitted from a        *)
(* process.nextTick callback: which of the two comes first depends on      *)
(* where destroy was called from, so they are separate steps.              *)
(***************************************************************************)
PipelineStatuses == {"running", "success"}

\* new JobStatusChangeEvent(jobStatus)
JobStatusChangeEvent(jobStatus) ==
  [type |-> "job_status", level |-> "none", data |-> <<jobStatus>>]

NotReturned == [at |-> FALSE, errors |-> {}]

InitD ==
  /\ dispatched = <<>>
  /\ returned = [d \in 1 .. MaxDestroy |-> NotReturned]

\* A dispatch that keeps the event for the listeners still to come.
TDispatchQueued(event) ==
  /\ Len(dispatched) < MaxDispatch
  /\ dispatched' = Append(dispatched, [event |-> event, listeners |-> nListen])
  /\ got' = Deliver(got, MaxListen, <<event>>)
  /\ UNCHANGED <<logs, rbuf, nListen, closeSeen, waiterForEnd, waitTargets,
                 destroys, fileWaiters, nWrites, returned>>

\* dispatch(event), lines 119-121: emit 'trace-event' to the callbacks that
\* listen() has registered so far (lines 93-95).
TDispatch(event) ==
  /\ Len(dispatched) < MaxDispatch
  /\ dispatched' = Append(dispatched, [event |-> event, listeners |-> nListen])
  /\ got' = Deliver(got, nListen, <<event>>)
  /\ UNCHANGED <<logs, rbuf, nListen, closeSeen, waiterForEnd, waitTargets,
                 destroys, fileWaiters, nWrites, returned>>

\* The listeners that have received the error destroy(err) was given.
ErrorSeenBy == {k \in Listeners : \E i \in DOMAIN got[k] :
                                    got[k][i] = LogEvent("error", ErrMessage)}

\* The caller of destroy call d resumes after `await tracer.destroy(err)`.
TDestroyReturn(d) ==
  /\ d \in DOMAIN destroys
  /\ destroys[d].done = Streams
  /\ ~returned[d].at
  /\ returned' = [returned EXCEPT ![d] = [at |-> TRUE, errors |-> ErrorSeenBy]]
  /\ UNCHANGED <<varsT, dispatched>>

NextD ==
  \/ \E s \in Streams, chunk \in Chunks :
       TWrite(s, chunk) /\ UNCHANGED <<varsL, varsR, varsD, varsM>>
  \/ TListen /\ UNCHANGED <<varsL, varsR, varsD, varsM>>
  \/ \E status \in PipelineStatuses :
       TDispatch(JobStatusChangeEvent(status)) /\ UNCHANGED <<varsL, varsR, varsM>>
  \/ \E err \in BOOLEAN : TDestroy(err) /\ UNCHANGED <<varsL, varsR, varsD, varsM>>
  \/ \E s \in Streams : TEmitClose(s) /\ UNCHANGED <<varsL, varsR, varsD, varsM>>
  \/ \E d \in 1 .. MaxDestroy : TDestroyReturn(d) /\ UNCHANGED <<varsL, varsR, varsM>>

(***************************************************************************)
(* The TraceManager: the registry of Tracers by id.  One Tracer is created *)
(* through it, the Tracer modelled above; OtherId is an id no Tracer has.  *)
(***************************************************************************)
TracerId == "t1"
OtherId == "t0"
TraceIds == {TracerId, OtherId}

\* History: the TraceManager call that completed last: its id argument,
\* whether it found a Tracer, how it completed, the registry before and
\* after it, and the number of Tracer.destroy calls it made.
NoCall == [op |-> "none", id |-> OtherId, found |-> FALSE, out |-> "none",
           pre |-> {}, post |-> {}, calls |-> 0]

Called(op, id, found, pre, post, calls) ==
  [op |-> op, id |-> id, found |-> found, out |-> "returned",
   pre |-> pre, post |-> post, calls |-> calls]

\* new TraceManager(): tracerMap = new Map()
InitM ==
  /\ tracerMap = {}
  /\ created = FALSE
  /\ mret = NoCall

\* create(opts), lines 249-253.
MCreate(opts) ==
  /\ ~created
  /\ created' = TRUE
  /\ logs' = [s \in Streams |-> NewLogPassthrough(opts[s])]
  /\ tracerMap' = tracerMap \cup {TracerId}
  /\ mret' = Called("create", TracerId, TRUE, tracerMap, tracerMap', 0)
  /\ UNCHANGED <<rbuf, nListen, got, closeSeen, waiterForEnd, waitTargets,
                 destroys, fileWaiters, nWrites>>

\* get(id), lines 259-261.
MGet(id) ==
  /\ mret' = Called("get", id, id \in tracerMap, tracerMap, tracerMap, 0)
  /\ UNCHANGED <<varsT, tracerMap, created>>

\* A destroy that calls the Tracer's destroy without looking the id up.
MDestroyUnchecked(id, err) ==
  /\ created' = created
  /\ tracerMap' = tracerMap \ {id}
  /\ IF created
     THEN /\ TDestroy(err)
          /\ mret' = Called("destroy", id, id \in tracerMap, tracerMap, tracerMap',
                            Len(destroys') - Len(destroys))
     ELSE /\ UNCHANGED varsT
          /\ mret' = Called("destroy", id, FALSE, tracerMap, tracerMap', 0)

\* A destroy that leaves the Tracer in the registry.
MDestroyKeepsEntry(id, err) ==
  /\ created' = created
  /\ tracerMap' = tracerMap
  /\ IF id \in tracerMap
     THEN /\ TDestroy(err)
          /\ mret' = Called("destroy", id, TRUE, tracerMap, tracerMap',
                            Len(destroys') - Len(destroys))
     ELSE /\ UNCHANGED varsT
          /\ mret' = Called("destroy", id, FALSE, tracerMap, tracerMap', 0)

\* destroy(id, err), lines 269-277: no await before tracer.destroy(err), so
\* the lookup, the delete and the call of Tracer.destroy are one step.
MDestroy(id, err) ==
  /\ created' = created
  /\ IF id \in tracerMap
     THEN /\ tracerMap' = tracerMap \ {id}
          /\ TDestroy(err)
          /\ mret' = Called("destroy", id, TRUE, tracerMap, tracerMap',
                            Len(destroys') - Len(destroys))
     ELSE /\ tracerMap' = tracerMap
          /\ UNCHANGED varsT
          /\ mret' = Called("destroy", id, FALSE, tracerMap, tracerMap', 0)

NextM ==
  \/ \E opts \in [Streams -> BOOLEAN] :
       MCreate(opts) /\ UNCHANGED <<varsL, varsR, varsD>>
  \/ \E id \in TraceIds : MGet(id) /\ UNCHANGED <<varsL, varsR, varsD>>
  \/ \E id \in TraceIds, err \in BOOLEAN :
       MDestroy(id, err) /\ UNCHANGED <<varsL, varsR, varsD>>
  \/ \E s \in Streams, chunk \in Chunks :
       created /\ TWrite(s, chunk) /\ UNCHANGED <<varsL, varsR, varsD, varsM>>
  \/ created /\ TListen /\ UNCHANGED <<varsL, varsR, varsD, varsM>>
  \/ \E s \in Streams :
       created /\ TFileClose(s) /\ UNCHANGED <<varsL, varsR, varsD, varsM>>
  \/ \E s \in Streams :
       created /\ TEmitClose(s) /\ UNCHANGED <<varsL, varsR, varsD, varsM>>

NextT ==
  \/ \E s \in Streams, chunk \in Chunks :
       TWrite(s, chunk) /\ UNCHANGED <<varsL, varsR, varsD, varsM>>
  \/ TListen /\ UNCHANGED <<varsL, varsR, varsD, varsM>>
  \/ TWait /\ UNCHANGED <<varsL, varsR, varsD, varsM>>
  \/ \E err \in BOOLEAN : TDestroy(err) /\ UNCHANGED <<varsL, varsR, varsD, varsM>>
  \/ \E s \in Streams : TFileClose(s) /\ UNCHANGED <<varsL, varsR, varsD, varsM>>
  \/ \E s \in Streams : TEmitClose(s) /\ UNCHANGED <<varsL, varsR, varsD, varsM>>

NextL ==
  \/ \E chunk \in SeqsUpTo(Bytes, MaxBytes - Len(lp.wrote)) :
       LWrite(chunk) /\ UNCHANGED <<varsR, varsT, varsD, varsM>>
  \/ LEnd /\ UNCHANGED <<varsR, varsT, varsD, varsM>>

\* SpecL and SpecR leave the Tracer alone: one created without files.
InitIdleTracer == InitL /\ InitR /\ InitT({FALSE}) /\ InitD /\ InitM

Init == InitL /\ InitR /\ InitT(BOOLEAN) /\ InitD /\ InitM

SpecL == InitIdleTracer /\ [][NextL]_vars
SpecR == InitIdleTracer /\ [][NextR]_vars
SpecT == Init /\ [][NextT]_vars
\* SpecD: a Tracer without files, its listeners, dispatch and destroy calls.
SpecD == InitIdleTracer /\ [][NextD]_vars
\* SpecM: the TraceManager and the Tracer created through it.
SpecM == InitIdleTracer /\ [][NextM]_vars

\* The event loop runs every pending tick and every pending fs completion.
SpecTFair ==
  /\ SpecT
  /\ WF_vars(TFileClose("stdout") /\ UNCHANGED <<varsL, varsR, varsD, varsM>>)
  /\ WF_vars(TFileClose("stderr") /\ UNCHANGED <<varsL, varsR, varsD, varsM>>)
  /\ WF_vars(TEmitClose("stdout") /\ UNCHANGED <<varsL, varsR, varsD, varsM>>)
  /\ WF_vars(TEmitClose("stderr") /\ UNCHANGED <<varsL, varsR, varsD, varsM>>)

(***************************************************************************)
(* Claims about the PluginRunnable, checked under SpecR.                   *)
(***************************************************************************)
StartInFlight == {p \in Callers : pc[p] \in {"start_dirs", "start_load", "start_start"}}

\* C1: when a start call fails because the channel's load or start call
\* failed, the Runnable's state is 'idle' at the moment the caller observes
\* the failure.
C1_StartFailureLeavesIdle ==
  (ret.op = "start" /\ ret.out = "threw" /\ ret.why \in {"load", "start"})
    => ret.st = "idle"

\* C2: a start call issued while the state is not 'idle' throws at once and
\* leaves the state as it was, no call of it reaches the channel: at most one
\* start is in flight, and while one is the state is not 'idle'.
C2_StartRejectedWhenNotIdle ==
  /\ (ret.op = "start" /\ ret.why = "notidle")
       => /\ ret.out = "threw"
          /\ ret.pre # "idle"
          /\ ret.st = ret.pre
  /\ Cardinality(StartInFlight) <= 1
  /\ StartInFlight # {} => state \in {"busy", "error"}

C2_Witness ==
  /\ ret.op = "start" /\ ret.why = "notidle" /\ ret.pre = "busy"
  /\ \E q \in Callers : q # ret.who /\ pc[q] = "start_load"

C4_FailedBootstrapTearsDownChild ==
  (ret.op = "bootstrap" /\ ret.why = "reject") => ~ret.alive

\* C5: a destroy that found the child connected and whose channel call
\* failed returns without throwing, with the state 'error' and SIGKILL sent
\* to the child.
C5_FailedDestroyKills ==
  (ret.op = "destroy" /\ ret.why = "failed")
    => /\ ret.out = "returned"
       /\ ret.st = "error"
       /\ ret.killed
       /\ ~ret.alive

C5_Witness ==
  /\ ret.op = "destroy" /\ ret.why = "failed" /\ ret.pre = "idle"
  /\ state = "error" /\ sigkill

\* C13: a destroy call that finds no connected child (never spawned, exited
\* already, or destroyed already) returns without throwing and changes
\* nothing: no channel call, no signal, the state and canceled as before.
C13_DestroyUnconnectedIsNoOp ==
  (ret.op = "destroy" /\ ret.why \in {"nohandle", "notconnected"})
    => /\ ret.out = "returned"
       /\ ret.st = ret.pre

\* The edges of the lifecycle: init -> idle, idle -> busy, busy -> idle, and
\* from any state to error.
StateEdges ==
  {<<"init", "idle">>, <<"idle", "busy">>, <<"busy", "idle">>}
    \cup {<<s, "error">> : s \in States}

\* C16: whatever bootstrap, start, valueOf and destroy calls are made, the
\* state changes along the lifecycle's edges only, and it is 'idle' or
\* 'busy' only after a handshake was acknowledged.
C16_StateFollowsLifecycle ==
  /\ [][state' # state => <<state, state'>> \in StateEdges]_vars
  /\ [](state \in {"idle", "busy"} => acks > 0)

\* C17: 'error' is terminal under concurrency: when a destroy that failed
\* has set it while a start is in flight, no later step, the start's
\* resolution included, moves the state out of 'error'.
C17_ErrorIsTerminal ==
  [][(state = "error" /\ StartInFlight # {}) => state' = "error"]_vars

\* C18: within a start call the state is set to 'busy' before a request
\* goes to the channel (it is 'busy' when load and start are sent, or 'error'
\* when a destroy failed meanwhile), load is sent first, and start is sent
\* only when load has resolved: after a failed load no start is sent.
C18_LoadThenStart ==
  /\ req.op = "load" => (req.after = "dirs" /\ req.st \in {"busy", "error"})
  /\ req.op = "start" => (req.after = "load" /\ req.st \in {"busy", "error"})
  /\ \A p \in Callers :
       /\ pc[p] = "start_dirs" => (req.op = "none" /\ req.who = p)
       /\ pc[p] = "start_load" => (req.op = "load" /\ req.who = p)
       /\ pc[p] = "start_start" => (req.op = "start" /\ req.who = p)
  /\ (ret.op = "start" /\ ret.why = "load")
       => (req.op = "load" /\ req.who = ret.who)

\* load has resolved and start is out, the state still 'busy'.
C18_Witness ==
  /\ req.op = "start" /\ req.after = "load" /\ req.st = "busy"
  /\ pc[req.who] = "start_start"
  /\ state = "busy"

\* C19: a destroy call that found the child connected returns, never
\* throws, and when it returns the channel's destroy was acknowledged or
\* SIGKILL has been sent to the child; while it waits canceled is set.
C19_NoDanglingChild ==
  /\ (ret.op = "destroy" /\ ret.why \in {"acked", "failed"})
       => /\ ret.out = "returned"
          /\ ret.why = "acked" \/ ret.killed
  /\ \A p \in Callers : pc[p] = "destroy" => canceled

\* Two destroy calls in flight: the first one's channel call failed, the
\* second returns after it.
C19_Witness ==
  /\ ret.op = "destroy" /\ ret.why = "failed" /\ ret.pre = "error"
  /\ sigkill
  /\ \A p \in Callers : pc[p] # "destroy"

(***************************************************************************)
(* Claims about one LogPassthrough, checked under SpecL.                   *)
(***************************************************************************)
\* The text with every terminator written as LF.
Normalize(text) == [i \in 1 .. Len(text) |-> IF text[i] = CR THEN LF ELSE text[i]]

\* Complete lines, each followed by one terminator.
RECURSIVE JoinTerminated(_)
JoinTerminated(lines) ==
  IF lines = <<>> THEN <<>>
  ELSE Head(lines) \o <<LF>> \o JoinTerminated(Tail(lines))

\* What the stream has emitted, put together again: before _flush the pushed
\* lines and the carried fragment, after it the pushed lines, the last of
\* which is the final fragment when there was one.
Rebuilt(l) ==
  IF ~l.flushed THEN JoinTerminated(l.out) \o l.last
  ELSE IF l.last # <<>> THEN JoinTerminated(Front(l.out)) \o l.last
  ELSE JoinTerminated(l.out)

\* C9: the emitted lines, one terminator after each complete line, and the
\* final fragment are exactly the characters of the chunks written, in
\* order, nothing dropped and nothing twice.
C9_LinesAccountForInput ==
  LET d == DecoderWrite(<<>>, lp.wrote, <<>>)
  IN  Rebuilt(lp) = Normalize(IF lp.flushed THEN d.text \o DecoderEnd(d.pend) ELSE d.text)

\* Chunks "a\r" and "\na": the boundary falls inside a terminator sequence
\* and the text ends in a fragment.
C9_Witness ==
  /\ lp.flushed
  /\ lp.wrote = <<"a", CR, LF, "a">>
  /\ lp.firstCut = 2
  /\ lp.out = << <<"a">>, <<>>, <<"a">> >>

\* The lines one write of the whole text, then end(), emits.
OneShot(bytes) == Flush(Transform(NewLogPassthrough(FALSE), bytes)).out

\* C10: the lines emitted through finalization depend on the concatenation
\* of the chunks only, not on where the chunk boundaries fall.
C10_LinesIgnoreChunking ==
  /\ lp.flushed => lp.out = OneShot(lp.wrote)
  /\ ~lp.flushed => lp.out = Transform(NewLogPassthrough(FALSE), lp.wrote).out

\* Chunks "a\na" then "a\n" (the spec's "foo\nbar", "baz\n"): "a", "aa".
C10_Witness ==
  /\ lp.flushed
  /\ lp.wrote = <<"a", LF, "a", "a", LF>>
  /\ lp.firstCut = 3
  /\ lp.out = << <<"a">>, <<"a", "a">> >>

(***************************************************************************)
(* Claims about the Tracer, checked under SpecT (C7: SpecTFair).           *)
(***************************************************************************)
\* The promise a wait() call returned is resolved: wait() returned undefined
\* (the async function resolves with it at once), or the promise listen k
\* made has seen both streams close.
WaitResolved(t) == t = 0 \/ closeSeen[t] = Streams

\* The promise a destroy call returned is resolved.
DestroyResolved(d) == destroys[d].done = Streams

\* The lines of stream s among the events a listener received.
RECURSIVE LinesOf(_, _)
LinesOf(events, s) ==
  IF events = <<>> THEN <<>>
  ELSE IF Head(events).level = Level(s)
       THEN <<Head(events).data>> \o LinesOf(Tail(events), s)
       ELSE LinesOf(Tail(events), s)

\* C6: the promise returned by wait() is not resolved before both streams
\* have been closed, whatever the order of listen, write, wait and destroy.
C6_WaitNotBeforeClose ==
  \A t \in waitTargets :
    WaitResolved(t) => \A s \in Streams : logs[s].closed

\* C7: once destroy has been called, with or without an error and with or
\* without a listener, both streams get closed, the destroy call resolves
\* and so does the completion promise of every listen that preceded it.
C7_DestroyCompletes ==
  (Len(destroys) > 0) ~>
     /\ \A s \in Streams : logs[s].closed
     /\ DestroyResolved(1)
     /\ \A k \in Listeners : k <= destroys[1].listeners => closeSeen[k] = Streams

C7_Witness ==
  /\ Len(destroys) > 0
  /\ destroys[1].err
  /\ destroys[1].listeners = 1
  /\ 1 \in waitTargets
  /\ WaitResolved(1)
  /\ \E s \in Streams : logs[s].file = "closed"

\* C8: once a destroy call has resolved, each stream has run _flush, its
\* carried fragment is the last line it pushed and the last line of that
\* stream every listener registered before the first destroy received (the
\* first listener received every line), and its file is closed.
C8_DestroyFlushesAndCloses ==
  \A d \in DOMAIN destroys :
    DestroyResolved(d) =>
      \A s \in Streams :
        /\ logs[s].flushed
        /\ logs[s].dec = <<>>
        /\ logs[s].file \in {"none", "closed"}
        /\ logs[s].last # <<>> =>
             /\ logs[s].out # <<>>
             /\ Last(logs[s].out) = logs[s].last
             /\ \A k \in Listeners :
                  k <= destroys[1].listeners =>
                    /\ LinesOf(got[k], s) # <<>>
                    /\ Last(LinesOf(got[k], s)) = logs[s].last
        /\ destroys[1].listeners >= 1 => LinesOf(got[1], s) = logs[s].out

C8_Witness ==
  /\ Len(destroys) > 0
  /\ DestroyResolved(1)
  /\ destroys[1].listeners >= 1
  /\ logs["stdout"].file = "closed"
  /\ logs["stdout"].wrote = <<"a", LF, "a">>
  /\ logs["stdout"].last = <<"a">>
  /\ LinesOf(got[1], "stdout") = << <<"a">>, <<"a">> >>

\* C12: a destroy call on a Tracer that destroy was already called on
\* completes: the promise it returned gets resolved, also when the Tracer
\* writes its streams to files.
C12_SecondDestroyCompletes ==
  (Len(destroys) >= 2) ~> (Len(destroys) >= 2 /\ DestroyResolved(2))

(***************************************************************************)
(* Claims about dispatch and about the caller of destroy, checked under    *)
(* SpecD.                                                                  *)
(***************************************************************************)
\* The 'trace-event' events among the events a listener received.
RECURSIVE TraceEventsOf(_)
TraceEventsOf(events) ==
  IF events = <<>> THEN <<>>
  ELSE IF Head(events).type = "job_status"
       THEN <<Head(events)>> \o TraceEventsOf(Tail(events))
       ELSE TraceEventsOf(Tail(events))

\* The events dispatched while listener k was registered, in dispatch order.
RECURSIVE DispatchedTo(_, _)
DispatchedTo(calls, k) ==
  IF calls = <<>> THEN <<>>
  ELSE IF k <= Head(calls).listeners
       THEN <<Head(calls).event>> \o DispatchedTo(Tail(calls), k)
       ELSE DispatchedTo(Tail(calls), k)

\* C14: every listener has received, once each and in dispatch order,
\* exactly the events dispatched since it was registered: none of those
\* dispatched before, nothing is queued for it.
C14_DispatchFansOut ==
  \A k \in Listeners : TraceEventsOf(got[k]) = DispatchedTo(dispatched, k)

\* Two events dispatched around the registration of the second listener: the
\* first listener has both, in order, the second only the later one.
C14_Witness ==
  /\ Len(dispatched) = 2
  /\ dispatched[1].listeners = 1 /\ dispatched[2].listeners = 2
  /\ dispatched[1].event # dispatched[2].event
  /\ TraceEventsOf(got[1]) = <<dispatched[1].event, dispatched[2].event>>
  /\ TraceEventsOf(got[2]) = <<dispatched[2].event>>

\* C15: when destroy was called with an error and a listener was registered,
\* the listener has received the error by the time the destroy call's
\* caller resumes; without a listener no error event is ever raised.
C15_ErrorBeforeDestroyReturns ==
  /\ \A d \in DOMAIN destroys :
       (returned[d].at /\ destroys[d].err /\ destroys[d].listeners >= 1)
         => \A k \in Listeners : k <= destroys[d].listeners => k \in returned[d].errors
  /\ (\A d \in DOMAIN destroys : destroys[d].err => destroys[d].listeners = 0)
       => ErrorSeenBy = {}

(***************************************************************************)
(* Claims about the TraceManager, checked under SpecM.                     *)
(***************************************************************************)
\* C11: TraceManager.destroy(id) with an id that is not registered (never
\* created, or destroyed already) returns without raising, leaves the
\* registry as it was and calls no Tracer's destroy.
C11_DestroyUnknownIsNoOp ==
  (mret.op = "destroy" /\ ~mret.found)
    => /\ mret.id \notin mret.pre
       /\ mret.out = "returned"
       /\ mret.post = mret.pre
       /\ mret.calls = 0

\* destroy of an id never created while the Tracer is registered and has not
\* been destroyed.
C11_Witness ==
  /\ mret.op = "destroy" /\ ~mret.found /\ mret.id = OtherId
  /\ mret.pre = {TracerId} /\ tracerMap = {TracerId}
  /\ Len(destroys) = 0

\* C20: TraceManager.destroy(id) takes the Tracer out of the registry in the
\* step that calls its destroy, get(id) finds nothing from then on, and
\* however often destroy(id) is called the Tracer's destroy is called once.
C20_DestroyedOnceAndUnregistered ==
  /\ Len(destroys) <= 1
  /\ Len(destroys) = 1 => TracerId \notin tracerMap
  /\ (mret.op = "destroy" /\ mret.found)
       => /\ mret.calls = 1
          /\ mret.post = mret.pre \ {mret.id}
  /\ (mret.op = "get" /\ Len(destroys) = 1) => ~mret.found
  /\ (mret.op = "get" /\ mret.found) => mret.id = TracerId

\* get(id) while the Tracer destroyed through the manager is still waiting
\* for a file to close.
C20_Witness ==
  /\ mret.op = "get" /\ mret.id = TracerId /\ ~mret.found
  /\ Len(destroys) = 1
  /\ \E s \in Streams : logs[s].file = "ending"

====
